---- MODULE Spec2Model ----
(***************************************************************************)
(* The serial link protocol engine of the Z-Wave utilities: checksum,      *)
(* GetRxChar, GetZWave and Send2ZWave, as found (three times, with small   *)
(* differences in the debug output) in ZWaveNVM500.py, ZWaveNetX.py and    *)
(* ZWaveRSSI.py.  One call of Send2ZWave (or of GetZWave alone) runs       *)
(* against a UART whose peer may deliver bytes at any moment.              *)
(* The utility functions UnpackNodeMask and MapRSSI of ZWaveRSSI.py are    *)
(* applied to their arguments in specifications of their own.              *)
(***************************************************************************)
EXTENDS Integers, Sequences, FiniteSets, TLC

VARIABLES
    copy,             \* which of the three source files is running
    SerialAPIcmd,     \* argument of Send2ZWave: the command payload
    returnStringFlag, \* argument of Send2ZWave
    stream,           \* the whole byte stream the scripted peer sends during the call
    rx,               \* UART receive buffer (UZB.in_waiting = Len(rx))
    feed,             \* bytes the peer still has to deliver, in order (scripted peer)
    delivered,        \* number of bytes the unscripted peer has delivered
    pc,               \* position of the running call
    ret,              \* where the running GetRxChar returns to
    timeout,          \* GetRxChar's local countdown
    c,                \* last value returned by GetRxChar (a byte or None)
    retries,          \* loop variable of Send2ZWave's for loop
    i,                \* loop variable of the ACK probe loop
    pkt,              \* Send2ZWave's pkt: the frame built for this call
    length,           \* GetZWave's length
    rpkt,             \* GetZWave's pkt: the bytes read after the length byte
    chk,              \* GetZWave's checksum, once computed
    got,              \* history: the bytes GetZWave has read from the UART
    response,         \* the bytes returned, when the call returns bytes
    outcome,          \* "running", "None", "bytes", or the exception raised
    frames,           \* history: every pkt written by UZB.write(pkt), in order
    ackFlush,         \* history: UZB.write(ACK) executed before the frame was built
    ackTry,           \* history: UZB.write(ACK) executed in the current round of the for loop
    ackDecode,        \* history: UZB.write(ACK) executed by GetZWave
    hs,               \* history: the handshake value read for each attempt
    acked,            \* history: some attempt's handshake value was ACK
    rxNone,           \* history: the GetRxChar call sites that returned None
    arg,              \* argument of the utility function called (UnpackNodeMask, MapRSSI)
    retval,           \* its retval, once it has returned
    line,             \* ProdTestGen: the line last returned by ReadCOM
    acks,             \* ProdTestGen.SendNOPs: acks
    written,          \* history: number of self.com.write calls of ProdTestGen
    NVM,              \* ZWaveNVM500: self.NVM, per address the bytes written to it
    addr,             \* ZWaveNVM500.FetchNVM: addr
    index,            \* ZWaveNVM500.FetchNVM: index
    size              \* ZWaveFlashSize.CalculateFLASH: size

vars == <<copy, SerialAPIcmd, returnStringFlag, stream, rx, feed, delivered, pc, ret,
          timeout, c, retries, i, pkt, length, rpkt, chk, got, response, outcome,
          frames, ackFlush, ackTry, ackDecode, hs, acked, rxNone, arg, retval,
          line, acks, written, NVM, addr, index, size>>

-----------------------------------------------------------------------------
(* Bounds of the model *)

\* bytes the unscripted peer may deliver during one call
MaxDeliver == 3
\* longest command payload tried
MaxCmdLen == 2
\* longest scripted byte stream fed to GetZWave alone
MaxFeed == 3
\* polls of GetRxChar(500), GetRxChar(timeout=5000) and GetRxChar() (100),
\* scaled down: one poll is one 1 ms sleep of the source
HandshakeTicks == 2
ReplyTicks == 3
CharTicks == 1
\* longest run of bytes before the SOF of a scripted frame
MaxJunk == 1
\* most bytes after the length byte of a scripted frame
MaxBody == 3
\* most bytes the scripted peer sends after a frame
MaxTail == 1
\* longest node mask tried
MaxMask == 3
\* most '}'-separated parts of a line given to IsNIF
MaxParts == 3
\* most lines the port holds for GetVersion
MaxReads == 6
\* most lines getFields finds in the map file
MaxLines == 3

-----------------------------------------------------------------------------
(* Program constants *)

SOF == 1
ACK == 6
NAK == 21
CAN == 24
REQUEST == 0
RESPONSE == 1
\* Python's None, as a value no byte can take
None == -1
\* for retries in range(1,4)
FirstTry == 1
StopTry == 4
\* for i in range(32)
NumProbes == 32
\* the spec's max_retries
max_retries == 3

Copies == {"NVM500", "NetX", "RSSI"}

\* the module-level DEBUG of each file
DEBUG(cp) == CASE cp = "NVM500" -> 4
               [] cp = "NetX" -> 10
               [] cp = "RSSI" -> 5

\* bytes the unscripted peer chooses from
RxBytes == {SOF, ACK, NAK, CAN}
\* bytes command payloads are built from
CmdBytes == {0, 1, 255}
\* bytes of the scripted streams fed to GetZWave alone
FeedBytes == {0, SOF, 2, ACK}
\* bytes of a scripted frame: ahead of its SOF, after its length byte, behind it
JunkBytes == {0, ACK}
BodyBytes == {0, SOF, 253}
TailBytes == {SOF}
\* bytes node masks are built from
MaskBytes == {0, 1, 5, 128, 165, 255}

RECURSIVE SeqsUpTo(_, _)
SeqsUpTo(S, n) ==
    IF n = 0 THEN {<<>>}
    ELSE LET shorter == SeqsUpTo(S, n - 1)
         IN shorter \cup {Append(s, b) : s \in {t \in shorter : Len(t) = n - 1}, b \in S}

-----------------------------------------------------------------------------
(* Pure functions *)

\* Python's ^ on two non-negative integers
RECURSIVE Xor(_, _)
Xor(a, b) ==
    IF a = 0 THEN b
    ELSE IF b = 0 THEN a
    ELSE (((a % 2) + (b % 2)) % 2) + 2 * Xor(a \div 2, b \div 2)

\* the body of checksum's loop, from the running value s
RECURSIVE XorFold(_, _)
XorFold(s, p) == IF p = <<>> THEN s ELSE XorFold(Xor(s, Head(p)), Tail(p))

checksum(p) == XorFold(255, p)

\* GetZWave: checksum= self.checksum(pkt)[0]; checksum ^= length
FrameCheck_NoLength(p, len) == checksum(p)
FrameCheck(p, len) == Xor(checksum(p), len)

\* frame = bytes([len(SerialAPIcmd)+2]) + REQUEST + SerialAPIcmd
Frame_LenPlusOne(cmd) == <<Len(cmd) + 1, REQUEST>> \o cmd
Frame(cmd) == <<Len(cmd) + 2, REQUEST>> \o cmd

\* pkt = SOF + frame + chksum
Packet(cmd) == <<SOF>> \o Frame(cmd) \o <<checksum(Frame(cmd))>>

\* pkt[1:-1]
Strip_KeepType(p) == SubSeq(p, 1, Len(p) - 1)
Strip_Whole(p) == p
Strip(p) == SubSeq(p, 2, Len(p) - 1)

\* elif c==ACK: break
Break_Never(ch) == FALSE
Break_OnNak(ch) == ch = NAK
Break(ch) == ch = ACK

\* the debug prints that raise TypeError: a bytes object formatted with {:02X},
\* or ord() of None
FlushRaises(cp) == cp \in {"NVM500", "NetX"} /\ DEBUG(cp) > 5
RejectRaises(cp) == cp \in {"NVM500", "NetX"} /\ DEBUG(cp) > 1
SyncRaises_OnJunk(cp, ch) == DEBUG(cp) > 5
SyncRaises(cp, ch) == DEBUG(cp) > 5 /\ ch = None
RxCharRaises(cp, ch) == cp = "NVM500" /\ DEBUG(cp) > 9 /\ ch = None

\* the for loop of Send2ZWave goes round again
MoreTries_TwoMore(r) == r + 1 < StopTry + 2
MoreTries_OneMore(r) == r + 1 <= StopTry
MoreTries(r) == r + 1 < StopTry

\* Python's & on two non-negative integers
RECURSIVE BitAnd(_, _)
BitAnd(a, b) ==
    IF a = 0 \/ b = 0 THEN 0
    ELSE ((a % 2) * (b % 2)) + 2 * BitAnd(a \div 2, b \div 2)

\* int(i+1 + 8*k)
NodeId_FromZero(i_, k) == i_ + 8 * k
NodeId(i_, k) == i_ + 1 + 8 * k

\* for i in range(0,8): if (1<<i)&j: retval.append(int(i+1 + 8*k))
RECURSIVE UnpackByte(_, _, _, _)
UnpackByte(acc, j, k, i_) ==
    IF i_ = 8 THEN acc
    ELSE UnpackByte(IF BitAnd(2 ^ i_, j) # 0 THEN Append(acc, NodeId(i_, k)) ELSE acc,
                    j, k, i_ + 1)

\* for k in range(0,len(pkt)): j=pkt[k]; ...
RECURSIVE UnpackFrom(_, _, _)
UnpackFrom(acc, p, k) ==
    IF k = Len(p) THEN acc
    ELSE UnpackFrom(UnpackByte(acc, p[k + 1], k, 0), p, k + 1)

\* UnpackNodeMask of a byte string (pkt==None, the other case, returns None)
UnpackNodeMask(p) == UnpackFrom(<<>>, p, 0)

\* ZWaveNetX.GetNodeIDList: for k in range(4,28+4): j=pkt[k]; for i in ...:
\* if (1<<i)&j: retval.append(int(i+1+ 8*(k-4)))
\* (what each byte appends, one byte after the other)
RECURSIVE UnpackRange(_, _, _)
UnpackRange(p, k, stop) ==
    IF k = stop THEN <<>>
    ELSE UnpackByte(<<>>, p[k + 1], k - 4, 0) \o UnpackRange(p, k + 1, stop)

\* if pkt!=None and len(pkt)>33
HasInitData(out, p) == out = "bytes" /\ Len(p) > 33

\* ZWaveRSSI.GetNodeIDList names ZWaveNetX, which ZWaveRSSI.py neither
\* defines nor imports: evaluating the name raises NameError
NodeListRaises(cp) == cp = "RSSI"

\* a Python value that is a str, and one that is an int
PyStr(x) == [kind |-> "str", val |-> x]
PyInt(n) == [kind |-> "int", val |-> n]

MapRSSI_NoMin(rssiraw) ==
    IF rssiraw = 127 THEN PyStr("NA")
    ELSE IF rssiraw = 126 THEN PyStr("MAX")
    ELSE PyInt(rssiraw - 256)

MapRSSI(rssiraw) ==
    IF rssiraw = 127 THEN PyStr("NA")
    ELSE IF rssiraw = 126 THEN PyStr("MAX")
    ELSE IF rssiraw = 125 THEN PyStr("MIN")
    ELSE PyInt(rssiraw - 256)

-----------------------------------------------------------------------------
(* The UART and its peer *)

uartVars == <<rx, feed, delivered>>
argVars == <<copy, SerialAPIcmd, returnStringFlag, stream>>
railVars == <<line, acks, written>>
toolVars == <<NVM, addr, index, size>>
callVars == <<arg, retval, railVars, toolVars>>
sendVars == <<retries, i, pkt, frames, hs, acked>>
ackVars == <<ackFlush, ackTry, ackDecode>>
getVars == <<length, rpkt, chk, got>>

\* the positions at which the program looks at the UART next (in_waiting or
\* read); a byte that arrives anywhere else is seen exactly as one that
\* arrives at the next of these positions
Looking == pc \in {"start", "flush", "GetRxChar", "probe", "drain"}

\* where the program only asks whether anything is pending, a second byte is
\* seen exactly as one that arrives at the next position
Noticed == pc \in {"start", "probe"} /\ rx # <<>>

\* the peer puts one more byte on the line, at a moment of its choosing
Deliver ==
    /\ Looking /\ ~Noticed
    /\ delivered < MaxDeliver
    /\ \E b \in RxBytes : rx' = Append(rx, b)
    /\ delivered' = delivered + 1
    /\ UNCHANGED <<argVars, callVars, feed, pc, ret, timeout, c, sendVars, getVars,
                   response, outcome, ackVars, rxNone, toolVars>>

\* the scripted peer puts its next byte on the line
DeliverFeed ==
    /\ Looking
    /\ feed # <<>>
    /\ rx' = Append(rx, Head(feed))
    /\ feed' = Tail(feed)
    /\ UNCHANGED <<argVars, callVars, delivered, pc, ret, timeout, c, sendVars, getVars,
                   response, outcome, ackVars, rxNone, toolVars>>

-----------------------------------------------------------------------------
(* GetRxChar *)

\* one round of: while timeout>0 and not in_waiting: sleep(0.001); timeout -= 1
RxSleep ==
    /\ pc = "GetRxChar"
    /\ timeout > 0 /\ rx = <<>>
    /\ timeout' = timeout - 1
    /\ UNCHANGED <<argVars, callVars, uartVars, pc, ret, c, sendVars, getVars,
                   response, outcome, ackVars, rxNone, toolVars>>

\* the loop is left: read one byte if timeout>0, else None; return to the caller
RxReturn ==
    /\ pc = "GetRxChar"
    /\ ~(timeout > 0 /\ rx = <<>>)
    /\ IF timeout > 0
         THEN /\ c' = Head(rx)
              /\ rx' = Tail(rx)
              /\ rxNone' = rxNone
         ELSE /\ c' = None
              /\ rx' = rx
              /\ rxNone' = rxNone \cup {ret}
    /\ IF RxCharRaises(copy, c')
         THEN pc' = "raised" /\ outcome' = "TypeError"
         ELSE pc' = ret /\ outcome' = outcome
    /\ got' = IF ret \in {"gz_first", "gz_sync", "gz_len", "gz_body"} /\ c' # None
                THEN Append(got, c') ELSE got
    /\ timeout' = 0
    /\ UNCHANGED <<argVars, callVars, feed, delivered, ret, sendVars, length, rpkt, chk,
                   response, ackVars>>

-----------------------------------------------------------------------------
(* GetZWave *)

\* pkt=b''; c=self.GetRxChar(timeout)
GzStart ==
    /\ pc = "gz_start"
    /\ rpkt' = <<>> /\ got' = <<>>
    /\ pc' = "GetRxChar" /\ ret' = "gz_first" /\ timeout' = ReplyTicks
    /\ UNCHANGED <<argVars, callVars, uartVars, c, sendVars, length, chk,
                   response, outcome, ackVars, rxNone, toolVars>>

GzFirst_AcksTimeout ==
    /\ pc = "gz_first"
    /\ IF c = None
         THEN pc' = "done" /\ outcome' = "None" /\ ackDecode' = ackDecode + 1
         ELSE pc' = "gz_sync" /\ outcome' = outcome /\ ackDecode' = ackDecode
    /\ UNCHANGED <<argVars, callVars, uartVars, ret, timeout, c, sendVars, getVars,
                   response, ackFlush, ackTry, rxNone>>

\* if c == None: return None
GzFirst ==
    /\ pc = "gz_first"
    /\ IF c = None
         THEN pc' = "done" /\ outcome' = "None"
         ELSE pc' = "gz_sync" /\ outcome' = outcome
    /\ UNCHANGED <<argVars, callVars, uartVars, ret, timeout, c, sendVars, getVars,
                   response, ackVars, rxNone, toolVars>>

\* while c!=SOF: c=self.GetRxChar(timeout); then length=self.GetRxChar()
GzSync ==
    /\ pc = "gz_sync"
    /\ IF c # SOF
         THEN IF SyncRaises(copy, c)
                THEN /\ pc' = "raised" /\ outcome' = "TypeError"
                     /\ UNCHANGED <<ret, timeout>>
                ELSE /\ pc' = "GetRxChar" /\ ret' = "gz_sync" /\ timeout' = ReplyTicks
                     /\ outcome' = outcome
         ELSE /\ pc' = "GetRxChar" /\ ret' = "gz_len" /\ timeout' = CharTicks
              /\ outcome' = outcome
    /\ UNCHANGED <<argVars, callVars, uartVars, c, sendVars, getVars, response, ackVars, rxNone>>

\* length=self.GetRxChar()[0]; for i in range(length): c=self.GetRxChar()
GzLen ==
    /\ pc = "gz_len"
    /\ IF c = None
         THEN /\ pc' = "raised" /\ outcome' = "TypeError"
              /\ UNCHANGED <<length, ret, timeout>>
         ELSE /\ length' = c
              /\ outcome' = outcome
              /\ IF c = 0
                   THEN pc' = "gz_chk" /\ UNCHANGED <<ret, timeout>>
                   ELSE pc' = "GetRxChar" /\ ret' = "gz_body" /\ timeout' = CharTicks
    /\ UNCHANGED <<argVars, callVars, uartVars, c, sendVars, rpkt, chk, got, response, ackVars, rxNone>>

GzBody_OneMore ==
    /\ pc = "gz_body"
    /\ IF c = None
         THEN /\ pc' = "raised" /\ outcome' = "TypeError"
              /\ UNCHANGED <<rpkt, ret, timeout>>
         ELSE /\ rpkt' = Append(rpkt, c)
              /\ outcome' = outcome
              /\ IF Len(rpkt') = length + 1
                   THEN pc' = "gz_chk" /\ UNCHANGED <<ret, timeout>>
                   ELSE pc' = "GetRxChar" /\ ret' = "gz_body" /\ timeout' = CharTicks
    /\ UNCHANGED <<argVars, callVars, uartVars, c, sendVars, length, chk, got, response, ackVars, rxNone>>

\* pkt += c, and the next round of the for loop
GzBody ==
    /\ pc = "gz_body"
    /\ IF c = None
         THEN /\ pc' = "raised" /\ outcome' = "TypeError"
              /\ UNCHANGED <<rpkt, ret, timeout>>
         ELSE /\ rpkt' = Append(rpkt, c)
              /\ outcome' = outcome
              /\ IF Len(rpkt') = length
                   THEN pc' = "gz_chk" /\ UNCHANGED <<ret, timeout>>
                   ELSE pc' = "GetRxChar" /\ ret' = "gz_body" /\ timeout' = CharTicks
    /\ UNCHANGED <<argVars, callVars, uartVars, c, sendVars, length, chk, got, response, ackVars, rxNone>>

\* checksum, the ACK of the frame, and return pkt[1:-1]
GzChk ==
    /\ pc = "gz_chk"
    /\ chk' = FrameCheck(rpkt, length)
    /\ ackDecode' = ackDecode + 1
    /\ response' = Strip(rpkt)
    /\ outcome' = "bytes"
    /\ pc' = "done"
    /\ UNCHANGED <<argVars, callVars, uartVars, ret, timeout, c, sendVars, length, rpkt, got,
                   ackFlush, ackTry, rxNone>>

-----------------------------------------------------------------------------
(* Send2ZWave *)

Start_AlwaysAcks ==
    /\ pc = "start"
    /\ ackFlush' = ackFlush + 1
    /\ pc' = "flush"
    /\ UNCHANGED <<argVars, callVars, uartVars, ret, timeout, c, sendVars, getVars,
                   response, outcome, ackTry, ackDecode, rxNone>>

\* if self.UZB.in_waiting: self.UZB.write(ACK)
Start ==
    /\ pc = "start"
    /\ ackFlush' = IF rx # <<>> THEN ackFlush + 1 ELSE ackFlush
    /\ pc' = "flush"
    /\ UNCHANGED <<argVars, callVars, uartVars, ret, timeout, c, sendVars, getVars,
                   response, outcome, ackTry, ackDecode, rxNone>>

\* while self.UZB.in_waiting: c=self.UZB.read(); then the frame is built
Flush ==
    /\ pc = "flush"
    /\ IF rx # <<>>
         THEN /\ c' = Head(rx)
              /\ rx' = Tail(rx)
              /\ IF FlushRaises(copy)
                   THEN pc' = "raised" /\ outcome' = "TypeError"
                   ELSE pc' = pc /\ outcome' = outcome
              /\ UNCHANGED <<pkt, retries>>
         ELSE /\ UNCHANGED <<c, rx>>
              /\ IF Len(SerialAPIcmd) + 2 > 255
                   THEN /\ pc' = "raised" /\ outcome' = "ValueError"
                        /\ UNCHANGED <<pkt, retries>>
                   ELSE /\ pkt' = Packet(SerialAPIcmd)
                        /\ retries' = FirstTry
                        /\ pc' = "send"
                        /\ outcome' = outcome
    /\ UNCHANGED <<argVars, callVars, feed, delivered, ret, timeout, i, frames, hs, acked,
                   getVars, response, ackVars, rxNone, toolVars>>

Send_FrameOfTry ==
    /\ pc = "send"
    /\ frames' = Append(frames, IF retries = FirstTry THEN pkt ELSE Packet(<<retries>> \o SerialAPIcmd))
    /\ ackTry' = 0
    /\ pc' = "GetRxChar" /\ ret' = "hs" /\ timeout' = HandshakeTicks
    /\ UNCHANGED <<argVars, callVars, uartVars, c, retries, i, pkt, hs, acked, getVars,
                   response, outcome, ackFlush, ackDecode, rxNone>>

\* self.UZB.write(pkt); c=self.GetRxChar(500)
Send ==
    /\ pc = "send"
    /\ frames' = Append(frames, pkt)
    /\ ackTry' = 0
    /\ pc' = "GetRxChar" /\ ret' = "hs" /\ timeout' = HandshakeTicks
    /\ UNCHANGED <<argVars, callVars, uartVars, c, retries, i, pkt, hs, acked, getVars,
                   response, outcome, ackFlush, ackDecode, rxNone>>

\* the end of one round of the for loop: the next round, or the loop is over
EndTry ==
    /\ i' = 0
    /\ IF MoreTries(retries)
         THEN retries' = retries + 1 /\ pc' = "send"
         ELSE retries' = retries /\ pc' = "after"

\* the three branches on the handshake value
Handshake ==
    /\ pc = "hs"
    /\ hs' = Append(hs, c)
    /\ acked' = (acked \/ c = ACK)
    /\ IF c = None
         THEN /\ i' = 0 /\ pc' = "probe"
              /\ UNCHANGED <<ackTry, outcome, retries>>
         ELSE IF Break(c)
         THEN /\ pc' = "after"
              /\ UNCHANGED <<ackTry, outcome, retries, i>>
         ELSE IF c # ACK
         THEN IF RejectRaises(copy)
                THEN /\ pc' = "raised" /\ outcome' = "TypeError"
                     /\ UNCHANGED <<ackTry, retries, i>>
                ELSE /\ ackTry' = ackTry + 1
                     /\ pc' = "drain"
                     /\ UNCHANGED <<outcome, retries, i>>
         ELSE /\ EndTry
              /\ UNCHANGED <<ackTry, outcome>>
    /\ UNCHANGED <<argVars, callVars, uartVars, ret, timeout, c, pkt, frames, getVars,
                   response, ackFlush, ackDecode, rxNone>>

Probe_OneMore ==
    /\ pc = "probe"
    /\ ackTry' = ackTry + 1
    /\ IF rx # <<>> \/ i + 1 = NumProbes + 1
         THEN EndTry
         ELSE /\ i' = i + 1
              /\ UNCHANGED <<retries, pc>>
    /\ UNCHANGED <<argVars, callVars, uartVars, ret, timeout, c, pkt, frames, hs, acked,
                   getVars, response, outcome, ackFlush, ackDecode, rxNone>>

Probe_NoBreak ==
    /\ pc = "probe"
    /\ ackTry' = ackTry + 1
    /\ IF i + 1 = NumProbes
         THEN EndTry
         ELSE /\ i' = i + 1
              /\ UNCHANGED <<retries, pc>>
    /\ UNCHANGED <<argVars, callVars, uartVars, ret, timeout, c, pkt, frames, hs, acked,
                   getVars, response, outcome, ackFlush, ackDecode, rxNone>>

\* for i in range(32): self.UZB.write(ACK); if self.UZB.inWaiting(): break
Probe ==
    /\ pc = "probe"
    /\ ackTry' = ackTry + 1
    /\ IF rx # <<>> \/ i + 1 = NumProbes
         THEN EndTry
         ELSE /\ i' = i + 1
              /\ UNCHANGED <<retries, pc>>
    /\ UNCHANGED <<argVars, callVars, uartVars, ret, timeout, c, pkt, frames, hs, acked,
                   getVars, response, outcome, ackFlush, ackDecode, rxNone>>

\* while self.UZB.in_waiting: c=self.UZB.read()
Drain ==
    /\ pc = "drain"
    /\ IF rx # <<>>
         THEN /\ c' = Head(rx)
              /\ rx' = Tail(rx)
              /\ UNCHANGED <<retries, pc, i, ackTry>>
         ELSE /\ UNCHANGED <<c, rx, ackTry>>
              /\ EndTry
    /\ UNCHANGED <<argVars, callVars, feed, delivered, ret, timeout, pkt, frames, hs,
                   acked, getVars, response, outcome, ackFlush, ackDecode, rxNone>>

After_ReadsReply ==
    /\ pc = "after"
    /\ pc' = "gz_start" /\ outcome' = outcome
    /\ ackTry' = 0
    /\ UNCHANGED <<argVars, callVars, uartVars, ret, timeout, c, sendVars, getVars,
                   response, ackFlush, ackDecode, rxNone>>

\* response=None; if returnStringFlag: response=self.GetZWave(timeout); return response
After ==
    /\ pc = "after"
    /\ IF returnStringFlag
         THEN pc' = "gz_start" /\ outcome' = outcome
         ELSE pc' = "done" /\ outcome' = "None"
    /\ ackTry' = 0
    /\ UNCHANGED <<argVars, callVars, uartVars, ret, timeout, c, sendVars, getVars,
                   response, ackFlush, ackDecode, rxNone>>

-----------------------------------------------------------------------------
(* Specifications *)

Cmds == SeqsUpTo(CmdBytes, MaxCmdLen)

\* commands the callers send: none, FUNC_ID_ZW_CLEAR_NETWORK_STATS, and
\* FetchNVM's FUNC_ID_NVM_EXT_READ_LONG_BUFFER request for index 128
SentCmds == {<<>>, <<57>>, <<42, 0, 0, 128, 0, 128>>}

\* what ReadCOM returns as a line, reduced to what its callers look at:
\* whether b"rxPacket" and b"payload" occur in it, and the first of its
\* '}'-separated parts that holds b"payload", split at the blanks
RailLine(r, p, f) == [rxPacket |-> r, payload |-> p, fields |-> f]

\* line=b""
NoLine == RailLine(FALSE, FALSE, <<>>)

\* ProdTestGen is not running
RailIdle == line = NoLine /\ acks = 0 /\ written = 0

\* neither FetchNVM nor CalculateFLASH is running; self.NVM=IntelHex()
ToolsIdle == NVM = <<>> /\ addr = 0 /\ index = 0 /\ size = <<>>

Locals ==
    /\ rx = <<>> /\ delivered = 0
    /\ ret = "none" /\ timeout = 0 /\ c = None
    /\ retries = 0 /\ i = 0
    /\ length = 0 /\ rpkt = <<>> /\ chk = None /\ got = <<>>
    /\ response = <<>> /\ outcome = "running"
    /\ frames = <<>> /\ hs = <<>> /\ acked = FALSE /\ rxNone = {}
    /\ ackFlush = 0 /\ ackTry = 0 /\ ackDecode = 0
    /\ RailIdle /\ ToolsIdle

\* no utility function is called
NoCall == arg = <<>> /\ retval = <<>>

\* one call of Send2ZWave, the peer free to deliver any bytes at any time
Init ==
    /\ copy \in Copies
    /\ SerialAPIcmd \in SentCmds
    /\ returnStringFlag \in BOOLEAN
    /\ feed = <<>>
    /\ stream = feed
    /\ pkt = <<>>
    /\ pc = "start"
    /\ Locals /\ NoCall

GetRxChar == RxSleep \/ RxReturn
GetZWave == GzStart \/ GzFirst \/ GzSync \/ GzLen \/ GzBody \/ GzChk
Send2ZWave == Start \/ Flush \/ Send \/ Handshake \/ Probe \/ Drain \/ After

Next == Deliver \/ GetRxChar \/ GetZWave \/ Send2ZWave

Spec == Init /\ [][Next]_vars

\* GetZWave alone, reading back a frame built by Send2ZWave's encoder
CodecInit ==
    /\ copy \in Copies
    /\ SerialAPIcmd \in Cmds
    /\ returnStringFlag = TRUE
    /\ pkt = Packet(SerialAPIcmd)
    /\ feed = pkt
    /\ stream = feed
    /\ pc = "gz_start"
    /\ Locals /\ NoCall

CodecNext == DeliverFeed \/ GetRxChar \/ GetZWave

CodecSpec == CodecInit /\ [][CodecNext]_vars

\* GetZWave alone on an arbitrary byte stream; the running program always
\* takes its next step, the peer is under no obligation
DecodeInit ==
    /\ copy \in Copies
    /\ SerialAPIcmd = <<>>
    /\ returnStringFlag = TRUE
    /\ pkt = <<>>
    /\ feed \in SeqsUpTo(FeedBytes, MaxFeed)
    /\ stream = feed
    /\ pc = "gz_start"
    /\ Locals /\ NoCall

DecodeNext == DeliverFeed \/ GetRxChar \/ GetZWave

DecodeSpec == DecodeInit /\ [][DecodeNext]_vars /\ WF_vars(GetRxChar \/ GetZWave)

\* the streams that hold one whole frame: SOF, a length byte and that many
\* bytes, with or without a good checksum
FramedStreams ==
    {j \o <<SOF, Len(b)>> \o b \o t : j \in SeqsUpTo(JunkBytes, MaxJunk),
                                     b \in SeqsUpTo(BodyBytes, MaxBody),
                                     t \in SeqsUpTo(TailBytes, MaxTail)}

\* GetZWave alone on a stream that holds one whole frame
FrameInit ==
    /\ copy \in Copies
    /\ SerialAPIcmd = <<>>
    /\ returnStringFlag = TRUE
    /\ pkt = <<>>
    /\ feed \in FramedStreams
    /\ stream = feed
    /\ pc = "gz_start"
    /\ Locals /\ NoCall

FrameNext == DeliverFeed \/ GetRxChar \/ GetZWave

FrameSpec == FrameInit /\ [][FrameNext]_vars

\* the copies, in the order in which they are run on one and the same input
CopyOrder == <<"RSSI", "NVM500", "NetX">>

\* a frame the device answers with: SOF, length, RESPONSE, one byte, checksum
ReplyFrame == <<SOF, 3, RESPONSE, 7, checksum(<<3, RESPONSE, 7>>)>>

\* what the device puts on the line in answer to one transmission: at once
\* (nothing, an ACK, a NAK, an ACK and the reply, alone or behind a byte of
\* noise, an ACK and noise), or only once the ACK probes have begun
Bursts ==
    [late : {FALSE},
     bytes : {<<>>, <<ACK>>, <<NAK>>, <<ACK>> \o ReplyFrame, <<ACK, 0>> \o ReplyFrame, <<ACK, 0>>}]
    \cup [late : {TRUE}, bytes : {<<ACK>>, <<NAK>>}]

\* a device: what is pending when the call begins, and its answer to each
\* of the transmissions of one call
Scripts == [pending : {<<>>, <<NAK>>}, replies : [1..(StopTry - 1) -> Bursts]]

\* the device's next burst is due: the pending bytes before the call looks
\* at the port, the answer to transmission k once it is written, a late
\* answer at the first probe
Due ==
    \/ pc = "start" /\ delivered = 0
    \/ /\ delivered >= 1 /\ delivered = Len(frames)
       /\ IF arg.replies[delivered].late
            THEN pc = "probe"
            ELSE pc = "GetRxChar" /\ ret = "hs"

\* the device puts its next burst on the line
Respond ==
    /\ Due
    /\ rx' = rx \o (IF delivered = 0 THEN arg.pending ELSE arg.replies[delivered].bytes)
    /\ delivered' = delivered + 1
    /\ UNCHANGED <<argVars, callVars, feed, pc, ret, timeout, c, sendVars, getVars,
                   response, outcome, ackVars, rxNone>>

\* one step of the copy that is running
CopyStep == ~Due /\ (GetRxChar \/ GetZWave \/ Send2ZWave)

\* what one copy wrote to the port and returned: the ACK of the flush, the
\* frames, the handshake values it acted on, the ACKs of its last attempt,
\* the ACK of the reply, and the result (None, the bytes, or the exception)
Observed ==
    [ackFlush |-> ackFlush, frames |-> frames, hs |-> hs, ackTry |-> ackTry,
     ackDecode |-> ackDecode, result |-> outcome, response |-> response]

\* the call of one copy is over: what it did is kept, and the next copy is
\* called with the same arguments on the same device
NextCopy ==
    /\ pc \in {"done", "raised"}
    /\ retval' = Append(retval, Observed)
    /\ IF Len(retval') < Len(CopyOrder)
         THEN copy' = CopyOrder[Len(retval') + 1] /\ pc' = "start"
         ELSE copy' = copy /\ pc' = "compared"
    /\ rx' = <<>> /\ delivered' = 0
    /\ ret' = "none" /\ timeout' = 0 /\ c' = None
    /\ retries' = 0 /\ i' = 0 /\ pkt' = <<>>
    /\ length' = 0 /\ rpkt' = <<>> /\ chk' = None /\ got' = <<>>
    /\ response' = <<>> /\ outcome' = "running"
    /\ frames' = <<>> /\ hs' = <<>> /\ acked' = FALSE /\ rxNone' = {}
    /\ ackFlush' = 0 /\ ackTry' = 0 /\ ackDecode' = 0
    /\ UNCHANGED <<SerialAPIcmd, returnStringFlag, stream, feed, arg, railVars, toolVars>>

\* the three copies called one after the other with the same command and
\* flag on the same device
EquivInit ==
    /\ copy = CopyOrder[1]
    /\ SerialAPIcmd = <<57>>
    /\ returnStringFlag \in BOOLEAN
    /\ feed = <<>> /\ stream = <<>> /\ pkt = <<>>
    /\ pc = "start"
    /\ Locals
    /\ arg \in Scripts
    /\ retval = <<>>

EquivNext == Respond \/ CopyStep \/ NextCopy

EquivSpec == EquivInit /\ [][EquivNext]_vars

\* everything the utility functions leave alone
engineVars == <<argVars, uartVars, ret, timeout, c, sendVars, getVars,
                response, outcome, ackVars, rxNone, railVars, toolVars>>

Idle ==
    /\ copy = "RSSI" /\ SerialAPIcmd = <<>> /\ returnStringFlag = FALSE
    /\ feed = <<>> /\ stream = <<>> /\ pkt = <<>>

\* retval = UnpackNodeMask(pkt)
CallUnpackNodeMask ==
    /\ pc = "call"
    /\ retval' = UnpackNodeMask(arg)
    /\ pc' = "done"
    /\ UNCHANGED <<arg, engineVars>>

\* UnpackNodeMask on every mask up to MaxMask bytes
MaskInit ==
    /\ Idle /\ Locals
    /\ arg \in SeqsUpTo(MaskBytes, MaxMask)
    /\ retval = <<>>
    /\ pc = "call"

MaskSpec == MaskInit /\ [][CallUnpackNodeMask]_vars

\* retval = MapRSSI(rssiraw)
CallMapRSSI ==
    /\ pc = "call"
    /\ retval' = MapRSSI(arg)
    /\ pc' = "done"
    /\ UNCHANGED <<arg, engineVars>>

\* MapRSSI on every byte value
RssiInit ==
    /\ Idle /\ Locals
    /\ arg \in 0..255
    /\ retval = <<>>
    /\ pc = "call"

RssiSpec == RssiInit /\ [][CallMapRSSI]_vars

\* GetNodeIDList from the return of its Send2ZWave(GET_INIT_DATA, True) on:
\* outcome and response hold what Send2ZWave returned
CallGetNodeIDList ==
    /\ pc = "call"
    /\ IF HasInitData(outcome, response)
         THEN IF NodeListRaises(copy)
                THEN /\ pc' = "raised" /\ outcome' = "NameError"
                     /\ retval' = <<>>
                ELSE /\ pc' = "done" /\ outcome' = outcome
                     /\ retval' = UnpackRange(response, 4, 28 + 4)
         ELSE /\ pc' = "done" /\ outcome' = outcome
              /\ retval' = <<>>
    /\ UNCHANGED <<arg, railVars, argVars, uartVars, ret, timeout, c, sendVars, getVars,
                   response, ackVars, rxNone, toolVars>>

\* node masks of 29 bytes, all zero but for the first two and the last two
MaskEnds == {1, 2, 28, 29}
NodeMasks ==
    {[k \in 1..29 |-> IF k \in MaskEnds THEN f[k] ELSE 0] : f \in [MaskEnds -> {0, 1, 128}]}

\* replies to GET_INIT_DATA as Send2ZWave returns them: the function id, the
\* version, the capabilities, 29, the node mask, chip type and chip version
InitDataReplies ==
    {<<2, 5, 0, 29>> \o m \o t : m \in NodeMasks, t \in {<<0, 0>>, <<5, 0>>}}

\* the same cut short, as a reply of 33 bytes or fewer
ShortReplies == {SubSeq(r, 1, n) : r \in InitDataReplies, n \in {0, 33}}

NodeListInit ==
    /\ copy \in {"NetX", "RSSI"}
    /\ SerialAPIcmd = <<2>> /\ returnStringFlag = TRUE
    /\ feed = <<>> /\ stream = <<>> /\ pkt = Packet(SerialAPIcmd)
    /\ rx = <<>> /\ delivered = 0
    /\ ret = "none" /\ timeout = 0 /\ c = None
    /\ retries = 0 /\ i = 0
    /\ length = 0 /\ rpkt = <<>> /\ chk = None /\ got = <<>>
    /\ frames = <<>> /\ hs = <<>> /\ acked = FALSE /\ rxNone = {}
    /\ ackFlush = 0 /\ ackTry = 0 /\ ackDecode = 0
    /\ \/ outcome = "None" /\ response = <<>>
       \/ outcome = "bytes" /\ response \in InitDataReplies \cup ShortReplies
    /\ arg = <<>> /\ retval = <<>> /\ RailIdle /\ ToolsIdle
    /\ pc = "call"

NodeListSpec == NodeListInit /\ [][CallGetNodeIDList]_vars

-----------------------------------------------------------------------------
(* ProdTestGen *)

\* the HomeID of the device under test, and the fields of the frames RailTest
\* prints: HomeID (4), source NodeID, properties 1 (0x03 in an ACK), ...
HomeID == <<"0xCB", "0x95", "0xA3", "0x4F">>
NifFields ==
    <<"{payload:">> \o HomeID \o
    <<"0x00", "0x01", "0x41", "0x14", "0xFF", "0x01", "0x01", "0xD3", "0x9C", "0x04", "0x10">>
AckFields == <<"{payload:">> \o HomeID \o <<"0x00", "0x03", "0x06", "0x0A", "0x01">>

\* the NIF line SendNOPs is called with
NifLine == RailLine(TRUE, TRUE, NifFields)

\* lines ReadCOM may return to SendNOPs: nothing, an ACK of the device, the
\* same as an echo without rxPacket, another frame of the device, a frame of
\* another HomeID, and rxPacket lines that end early
NopLines ==
    {NoLine,
     RailLine(TRUE, TRUE, AckFields),
     RailLine(FALSE, TRUE, AckFields),
     RailLine(TRUE, TRUE, NifFields),
     RailLine(TRUE, TRUE, <<"{payload:", "0x00">> \o Tail(Tail(AckFields))),
     RailLine(TRUE, TRUE, SubSeq(AckFields, 1, 5)),
     RailLine(TRUE, TRUE, <<"{payload:">>)}

\* payload[0]==self.HomeID[0] and ... and payload[3]==self.HomeID[3] and
\* payload[5]==b"0x03", evaluated from the left: "ack", "no", or the
\* IndexError of the first index that is out of range
RECURSIVE NopIsAck(_, _)
NopIsAck(p, k) ==
    IF k = 4
      THEN IF Len(p) < 6 THEN "IndexError"
           ELSE IF p[6] = "0x03" THEN "ack" ELSE "no"
      ELSE IF Len(p) < k + 1 THEN "IndexError"
           ELSE IF p[k + 1] # HomeID[k + 1] THEN "no"
           ELSE NopIsAck(p, k + 1)

\* one line of the counting loop: "ack", "no" or the exception raised
NopLine(l) ==
    IF l.rxPacket /\ l.payload THEN NopIsAck(Tail(l.fields), 0) ELSE "no"

\* the serial engine's state, which ProdTestGen does not have
zwaveVars == <<argVars, uartVars, ret, timeout, c, sendVars, getVars,
               response, outcome, ackVars, rxNone>>

\* SendNOPs up to the loop: the payload of the NIF, the two commands written
NopStart ==
    /\ pc = "call"
    /\ IF ~arg.payload
         THEN pc' = "raised" /\ outcome' = "UnboundLocalError" /\ written' = written
         ELSE IF Len(arg.fields) < 6
         THEN pc' = "raised" /\ outcome' = "IndexError" /\ written' = written
         ELSE pc' = "nop_loop" /\ outcome' = outcome /\ written' = written + 2
    /\ acks' = 0 /\ timeout' = 0
    /\ UNCHANGED <<arg, retval, line, argVars, uartVars, ret, c, sendVars, getVars,
                   response, ackVars, rxNone, toolVars>>

\* while acks<10 and timeout<30: timeout+=1; line=self.ReadCOM(); ...
NopRead ==
    /\ pc = "nop_loop"
    /\ acks < 10 /\ timeout < 30
    /\ timeout' = timeout + 1
    /\ \E l \in NopLines :
         /\ line' = l
         /\ acks' = IF NopLine(l) = "ack" THEN acks + 1 ELSE acks
         /\ IF NopLine(l) \in {"ack", "no"}
              THEN pc' = pc /\ outcome' = outcome
              ELSE pc' = "raised" /\ outcome' = NopLine(l)
    /\ UNCHANGED <<arg, retval, written, argVars, uartVars, ret, c, sendVars, getVars,
                   response, ackVars, rxNone, toolVars>>

\* return(acks)
NopReturn ==
    /\ pc = "nop_loop"
    /\ ~(acks < 10 /\ timeout < 30)
    /\ retval' = acks
    /\ pc' = "done"
    /\ UNCHANGED <<arg, railVars, engineVars>>

SendNOPs == NopStart \/ NopRead \/ NopReturn

NopInit ==
    /\ Idle /\ Locals
    /\ arg = NifLine
    /\ retval = <<>>
    /\ pc = "call"

NopSpec == NopInit /\ [][SendNOPs]_vars

\* the calls of SendRailCmd made by Setup4Rx: the command and the expected
\* response (b"" where none is given)
RailCmds ==
    {[cmd |-> "rx 0", response |-> ""],
     [cmd |-> "setZWaveMode 1 3", response |-> "{ZWAVE:Enabled}"],
     [cmd |-> "setZWaveRegion 1", response |-> ""],
     [cmd |-> "setChannel 2", response |-> ""],
     [cmd |-> "setTxPayload 4 0x01 0x41 0x06 0x0c 0x00", response |-> ""],
     [cmd |-> "setTxLength 20", response |-> ""],
     [cmd |-> "setTxDelay 30", response |-> ""],
     [cmd |-> "setpower -130", response |-> ""]}

\* what ReadCOM returns to SendRailCmd, reduced to what SendRailCmd looks
\* at: whether b"{error:" occurs in it and whether the response does
CmdReplies == [error : BOOLEAN, expected : BOOLEAN]

\* self.com.write(cmd+b"\n"); line=self.ReadCOM()
CmdSend ==
    /\ pc = "call"
    /\ written' = written + 1
    /\ line' \in CmdReplies
    /\ pc' = "cmd_error"
    /\ UNCHANGED <<arg, retval, acks, zwaveVars, toolVars>>

\* if b"{error:" in line: self.com.write(cmd+b"\n"); line=self.ReadCOM()
CmdError ==
    /\ pc = "cmd_error"
    /\ IF line.error
         THEN written' = written + 1 /\ line' \in CmdReplies
         ELSE UNCHANGED <<written, line>>
    /\ pc' = "cmd_response"
    /\ UNCHANGED <<arg, retval, acks, zwaveVars, toolVars>>

\* if len(response)>0 and response not in line: self.com.write(cmd+b"\n")
CmdResponse ==
    /\ pc = "cmd_response"
    /\ written' = IF arg.response # "" /\ ~line.expected THEN written + 1 ELSE written
    /\ pc' = "done"
    /\ UNCHANGED <<arg, retval, acks, line, zwaveVars, toolVars>>

SendRailCmd == CmdSend \/ CmdError \/ CmdResponse

RailCmdInit ==
    /\ Idle /\ Locals
    /\ arg \in RailCmds
    /\ retval = <<>>
    /\ pc = "call"

RailCmdSpec == RailCmdInit /\ [][SendRailCmd]_vars

\* a Python bool returned, and an exception raised instead of a return
PyBool(b) == [kind |-> "bool", val |-> b]
Raise(e) == [kind |-> "raise", val |-> e]

\* one of the parts line2.split('}') gives, reduced to what IsNIF looks at:
\* a part with 'len:' (and whether int() accepts what follows the colon), a
\* part with 'payload:' (and what its split() gives), or any other part
LenPart(good, n) == [kind |-> "len", ok |-> good, val |-> n, fields |-> <<>>]
PayloadPart(f) == [kind |-> "payload", ok |-> TRUE, val |-> 0, fields |-> f]
OtherPart == [kind |-> "other", ok |-> TRUE, val |-> 0, fields |-> <<>>]

\* the parts tried: of a NIF, of an ACK (9 bytes), of a frame of 15 bytes
\* that is no NIF, a length that is no number
NifParts ==
    {OtherPart, LenPart(TRUE, 20), LenPart(FALSE, 0),
     PayloadPart(NifFields), PayloadPart(AckFields),
     PayloadPart(SubSeq(NifFields, 1, 10) \o <<"0x02">> \o SubSeq(NifFields, 12, 16))}

\* the arguments of IsNIF: None, or a line of up to MaxParts parts
NifArgs ==
    {[none |-> TRUE, parts |-> <<>>]} \cup
    {[none |-> FALSE, parts |-> q] : q \in SeqsUpTo(NifParts, MaxParts)}

\* the for loop of IsNIF from `length` on: the payload found, no payload
\* bound, or the ValueError of int()
RECURSIVE NifPayload(_, _)
NifPayload(parts, len) ==
    IF parts = <<>> THEN [kind |-> "unbound", fields |-> <<>>]
    ELSE IF len = 0 /\ Head(parts).kind = "len" /\ ~Head(parts).ok
      THEN [kind |-> "ValueError", fields |-> <<>>]
    ELSE IF Head(parts).kind = "payload"
      THEN [kind |-> "found", fields |-> Tail(Head(parts).fields)]
    ELSE NifPayload(Tail(parts),
                    IF len = 0 /\ Head(parts).kind = "len" THEN Head(parts).val ELSE len)

IsNIF(l) ==
    IF l.none THEN PyBool(FALSE)
    ELSE IF \A k \in 1..Len(l.parts) : l.parts[k].kind # "len" THEN PyBool(FALSE)
    ELSE LET payload == NifPayload(l.parts, 0)
         IN IF payload.kind = "ValueError" THEN Raise("ValueError")
            ELSE IF payload.kind = "unbound" THEN Raise("UnboundLocalError")
            ELSE IF Len(payload.fields) < 15 THEN PyBool(FALSE)
            ELSE IF payload.fields[10] # "0x01" \/ payload.fields[11] # "0x01"
              THEN PyBool(FALSE)
            ELSE PyBool(TRUE)

\* retval = IsNIF(line)
CallIsNIF ==
    /\ pc = "call"
    /\ retval' = IsNIF(arg)
    /\ pc' = IF retval'.kind = "raise" THEN "raised" ELSE "done"
    /\ UNCHANGED <<arg, engineVars>>

NifInit ==
    /\ Idle /\ Locals
    /\ arg \in NifArgs
    /\ retval = <<>>
    /\ pc = "call"

NifSpec == NifInit /\ [][CallIsNIF]_vars

\* a Python bytes object returned, its text as a string
PyBytes(x) == [kind |-> "bytes", val |-> x]

\* t in s
In(t, s) == \E k \in 1..(Len(s) - Len(t) + 1) : SubSeq(s, k, k + Len(t) - 1) = t

\* the first place of the separator sep in s from place k on, 0 if none
RECURSIVE FirstPlace(_, _, _)
FirstPlace(s, sep, k) ==
    IF k > Len(s) THEN 0
    ELSE IF SubSeq(s, k, k) = sep THEN k
    ELSE FirstPlace(s, sep, k + 1)

\* s.split(sep), after the text acc of the part being read
RECURSIVE SplitAt(_, _, _)
SplitAt(s, sep, acc) ==
    LET k == FirstPlace(s, sep, 1)
    IN IF k = 0 THEN <<acc \o s>>
       ELSE <<acc \o SubSeq(s, 1, k - 1)>> \o SplitAt(SubSeq(s, k + 1, Len(s)), sep, "")

\* s.split(b'}')
Split(s, acc) == SplitAt(s, "}", acc)

\* for i in temp: if b"RAIL" in i: line=i[1:]
RECURSIVE LastRail(_, _)
LastRail(temp, l) ==
    IF temp = <<>> THEN l
    ELSE LastRail(Tail(temp), IF In("RAIL", Head(temp)) THEN Tail(Head(temp)) ELSE l)

\* the reply of RailTest to getVersion, and the same without its RAIL field
VersionReply ==
    "{{(getVersion)}{App:2.8.6}{RAIL:2.8.6}{Multiprotocol:False}{Built:Jun  4 2020 10:55:56}}"
NoRailReply == "{{(getVersion)}{App:2.8.6}}"

\* lines ReadCOM may return to GetVersion: nothing, the echo of the command,
\* the reply, a reply without RAIL field
VerLines == {"", "> getVersion", VersionReply, NoRailReply}

\* retries=5
ReadRetries == 5

\* self.com.write(b"\r\ngetVersion\n"); line=b""; retries=5
VerStart ==
    /\ pc = "call"
    /\ written' = written + 1
    /\ line' = ""
    /\ retries' = ReadRetries
    /\ pc' = "ver_loop"
    /\ UNCHANGED <<arg, retval, acks, argVars, uartVars, ret, timeout, c, i, pkt, frames,
                   hs, acked, getVars, response, outcome, ackVars, rxNone, toolVars>>

\* while b'getVersion' not in line: line=self.ReadCOM(); retries-=1;
\* if retries<0: return("FAILED to get Railtest Version")
VerRead ==
    /\ pc = "ver_loop"
    /\ ~In("getVersion", line)
    /\ delivered' = delivered + 1
    /\ line' = IF delivered < Len(arg) THEN arg[delivered + 1] ELSE ""
    /\ retries' = retries - 1
    /\ IF retries' < 0
         THEN pc' = "done" /\ retval' = PyStr("FAILED to get Railtest Version")
         ELSE pc' = pc /\ retval' = retval
    /\ UNCHANGED <<arg, acks, written, argVars, rx, feed, ret, timeout, c, i, pkt, frames,
                   hs, acked, getVars, response, outcome, ackVars, rxNone, toolVars>>

\* temp=line.split(b'}'); for i in temp: ...; return(line)
VerReturn ==
    /\ pc = "ver_loop"
    /\ In("getVersion", line)
    /\ retval' = PyBytes(LastRail(Split(line, ""), line))
    /\ pc' = "done"
    /\ UNCHANGED <<arg, railVars, engineVars>>

GetVersion == VerStart \/ VerRead \/ VerReturn

\* GetVersion on a port that holds up to MaxReads lines
VerInit ==
    /\ Idle /\ Locals
    /\ arg \in SeqsUpTo(VerLines, MaxReads)
    /\ retval = <<>>
    /\ pc = "call"

VerSpec == VerInit /\ [][GetVersion]_vars

\* bufsize=128
bufsize == 128

\* range(0,16*1024,bufsize) ends here
NvmSize == 16 * 1024

\* FUNC_ID_NVM_EXT_READ_LONG_BUFFER + b'\x00' + bytes([int(index/256)]) +
\* bytes([index%256]) + b'\x00' + bytes([bufsize])
FetchCmd_NoHighByte(ix) == <<42, 0, 0, ix % 256, 0, bufsize>>
FetchCmd(ix) == <<42, 0, ix \div 256, ix % 256, 0, bufsize>>

\* the devices FetchNVM is run against: the byte at every address follows
\* from seed, a reply carries `extra` bytes after the data, and the reply to
\* the request for offset `at` may be cut short or missing (None)
Devices ==
    [seed : {1, 3}, extra : {0, 1}, bad : {"no"}, at : {0}] \cup
    [seed : {1, 3}, extra : {0, 1}, bad : {"short", "none"}, at : {0, 5 * bufsize}]

\* the byte a device holds at address a
DeviceByte(dev, a) == (a * dev.seed + a \div 256) % 256

\* what Send2ZWave(FetchCmd(ix), True) returns on a device that answers
DeviceReply(dev, ix) ==
    IF dev.bad = "short" /\ dev.at = ix
      THEN <<1>> \o [j \in 1..(bufsize - 30) |-> DeviceByte(dev, ix + j - 1)]
      ELSE <<1>> \o [j \in 1..bufsize |-> DeviceByte(dev, ix + j - 1)]
               \o [j \in 1..dev.extra |-> 0]

\* self.NVM[a]=b for a = first + k - 1 and b = p[k + 1], k = 1..n: every
\* address keeps the bytes written to it, the last one being its content
NvmWrite(nvm, first, p, n) ==
    [a \in DOMAIN nvm \cup first..(first + n - 1) |->
        IF a \in first..(first + n - 1)
          THEN (IF a \in DOMAIN nvm THEN nvm[a] ELSE <<>>) \o <<p[a - first + 2]>>
          ELSE nvm[a]]

\* bufsize=128; addr=0
FetchStart ==
    /\ pc = "call"
    /\ addr' = 0 /\ index' = 0
    /\ pc' = "fetch_loop"
    /\ UNCHANGED <<arg, retval, railVars, NVM, size, zwaveVars>>

\* one pass of `for index in range(0,16*1024,bufsize)`: the transaction
\* (frames: the commands handed to Send2ZWave; got: what it returned,
\* <<>> for None) and
\* the copy of pkt[1..bufsize] to self.NVM[addr..]
FetchRead ==
    /\ pc = "fetch_loop"
    /\ index < NvmSize
    /\ SerialAPIcmd' = FetchCmd(index)
    /\ frames' = Append(frames, SerialAPIcmd')
    /\ IF arg.bad = "none" /\ arg.at = index
         THEN /\ response' = <<>>
              /\ got' = Append(got, response')
              /\ pc' = "raised" /\ outcome' = "TypeError"
              /\ UNCHANGED <<NVM, addr, index>>
         ELSE /\ response' = DeviceReply(arg, index)
              /\ got' = Append(got, response')
              /\ IF Len(response') > bufsize
                   THEN /\ NVM' = NvmWrite(NVM, addr, response', bufsize)
                        /\ addr' = addr + bufsize
                        /\ index' = index + bufsize
                        /\ pc' = pc /\ outcome' = outcome
                   ELSE /\ NVM' = NvmWrite(NVM, addr, response', Len(response') - 1)
                        /\ addr' = addr + Len(response') - 1
                        /\ index' = index
                        /\ pc' = "raised" /\ outcome' = "IndexError"
    /\ UNCHANGED <<arg, retval, railVars, size, copy, returnStringFlag, stream, uartVars,
                   ret, timeout, c, retries, i, pkt, hs, acked, length, rpkt, chk,
                   ackVars, rxNone>>

\* the range is exhausted
FetchReturn ==
    /\ pc = "fetch_loop"
    /\ index >= NvmSize
    /\ pc' = "done"
    /\ UNCHANGED <<callVars, zwaveVars>>

FetchNVM == FetchStart \/ FetchRead \/ FetchReturn

FetchInit ==
    /\ Idle /\ Locals
    /\ arg \in Devices
    /\ retval = <<>>
    /\ pc = "call"

FetchSpec == FetchInit /\ [][FetchNVM]_vars

\* FlashCategories, in the order of declaration: name, string looked for
FlashCategories ==
    << <<"GCC", "/lib/gcc/">>,
       <<"BOOTLOADER", "platform/bootloader">>,
       <<"RAIL", "/rail_lib/">>,
       <<"NVM3CODE", "nvm3">>,
       <<"CRYPTO", "/crypto/">>,
       <<"FREERTOS", "/freertos/">>,
       <<"ZAF", "/ZAF">>,
       <<"ZWAVE", "/z-wave/">>,
       <<"GECKO", "gecko_sdk_">>,
       <<"APPLICATION", "/">> >>

\* the digits int(astring,16) takes
HexDigits == "0123456789abcdef"
HexCapitals == "0123456789ABCDEF"

\* astring without its 0x
HexBody(s) == IF Len(s) >= 2 /\ SubSeq(s, 1, 2) \in {"0x", "0X"} THEN SubSeq(s, 3, Len(s)) ELSE s

\* isHex(astring): int(astring,16) raises no ValueError
isHex(s) ==
    /\ HexBody(s) # ""
    /\ \A k \in 1..Len(HexBody(s)) :
          \E d \in 1..16 : SubSeq(HexBody(s), k, k) \in {SubSeq(HexDigits, d, d), SubSeq(HexCapitals, d, d)}

\* the value of the digits of b, after the value v of those before them
RECURSIVE HexDigitsVal(_, _)
HexDigitsVal(b, v) ==
    IF b = "" THEN v
    ELSE HexDigitsVal(Tail(b),
            16 * v + (CHOOSE d \in 0..15 :
                        SubSeq(b, 1, 1) \in {SubSeq(HexDigits, d + 1, d + 1),
                                             SubSeq(HexCapitals, d + 1, d + 1)}))

\* int(astring,16) of a string that isHex
HexVal(s) == HexDigitsVal(HexBody(s), 0)

\* for cat in FlashCategories.keys(): if FlashCategories[cat] in line[3]:
\* size[cat] += int(line[2],16); break    -- from category k on; <<>> stands
\* for the ValueError of int()
RECURSIVE AddFirst_NoBreak(_, _, _)
AddFirst_NoBreak(sz, k, l) ==
    IF k > Len(FlashCategories) THEN sz
    ELSE IF In(FlashCategories[k][2], l[4])
      THEN IF isHex(l[3])
             THEN AddFirst_NoBreak([sz EXCEPT ![FlashCategories[k][1]] = @ + HexVal(l[3])],
                                   k + 1, l)
             ELSE <<>>
    ELSE AddFirst_NoBreak(sz, k + 1, l)

RECURSIVE AddFirst(_, _, _)
AddFirst(sz, k, l) ==
    IF k > Len(FlashCategories) THEN sz
    ELSE IF In(FlashCategories[k][2], l[4])
      THEN IF isHex(l[3])
             THEN [sz EXCEPT ![FlashCategories[k][1]] = @ + HexVal(l[3])]
             ELSE <<>>
    ELSE AddFirst(sz, k + 1, l)

\* 0x20000000, where RAM begins
RamStart == 536870912

\* one pass of the while loop up to getFields, on the line l: the totals
\* after it, and "next", "break" or "ValueError"
FlashStep(sz, l) ==
    IF Len(l) < 3 THEN [size |-> sz, to |-> "next"]
    ELSE IF ~isHex(l[2]) THEN [size |-> sz, to |-> "next"]
    ELSE IF Len(l) = 4
      THEN IF AddFirst(sz, 1, l) = <<>>
             THEN [size |-> sz, to |-> "ValueError"]
             ELSE [size |-> AddFirst(sz, 1, l), to |-> "next"]
    ELSE IF Len(l) = 3
      THEN IF In("*fill*", l[1])
             THEN IF isHex(l[3])
                    THEN [size |-> [sz EXCEPT !["FILL"] = @ + HexVal(l[3])], to |-> "next"]
                    ELSE [size |-> sz, to |-> "ValueError"]
           ELSE IF HexVal(l[2]) >= RamStart THEN [size |-> sz, to |-> "break"]
           ELSE [size |-> sz, to |-> "next"]
    ELSE IF In(".stack", l[1]) THEN [size |-> sz, to |-> "break"]
    ELSE [size |-> sz, to |-> "next"]

\* lines getFields returns: of three or four fields, the second or third
\* of which need not be a number
FlashLines ==
    {<<".text.a", "0x00001000", "0x10", "/lib/gcc/nvm3.o">>,
     <<".text.b", "0x00001010", "0x20", "gecko_sdk_4/platform/bootloader/x.o">>,
     <<".text.c", "0x00001030", "0x4", "main.o">>,
     <<".text.d", "0x00001034", "0x8", "/z-wave/ZAF/x.o">>,
     <<".text.e", "0x0000103c", "zz", "/lib/gcc/x.o">>,
     <<".data", "load", "address", "0x00001c00">>,
     <<"*fill*", "0x00001040", "0x2">>,
     <<".stack", "0x20000000", "0x400">>}

\* size = {"FILL" : 0}; for cat in FlashCategories.keys(): size[cat]=0; line=[]
FlashStart ==
    /\ pc = "call"
    /\ size' = [cat \in {"FILL"} \cup {FlashCategories[k][1] : k \in 1..Len(FlashCategories)} |-> 0]
    /\ line' = <<>>
    /\ pc' = "flash_loop"
    /\ UNCHANGED <<arg, retval, acks, written, NVM, addr, index, zwaveVars>>

\* one pass of `while True`: the line is counted, then line = self.getFields(),
\* which raises ValueError at the end of the file; return(size) on break
FlashLine ==
    /\ pc = "flash_loop"
    /\ size' = FlashStep(size, line).size
    /\ IF FlashStep(size, line).to = "ValueError"
         THEN /\ pc' = "raised" /\ outcome' = "ValueError"
              /\ UNCHANGED <<line, delivered, retval>>
         ELSE IF FlashStep(size, line).to = "break"
         THEN /\ pc' = "done" /\ retval' = size'
              /\ UNCHANGED <<line, delivered, outcome>>
         ELSE IF delivered < Len(arg)
         THEN /\ line' = arg[delivered + 1]
              /\ delivered' = delivered + 1
              /\ UNCHANGED <<pc, outcome, retval>>
         ELSE /\ pc' = "raised" /\ outcome' = "ValueError"
              /\ UNCHANGED <<line, delivered, retval>>
    /\ UNCHANGED <<arg, acks, written, NVM, addr, index, argVars, rx, feed, ret, timeout,
                   c, sendVars, getVars, response, ackVars, rxNone>>

CalculateFLASH == FlashStart \/ FlashLine

\* CalculateFLASH on a map file of up to MaxLines lines
FlashInit ==
    /\ Idle /\ Locals
    /\ arg \in SeqsUpTo(FlashLines, MaxLines)
    /\ retval = <<>>
    /\ pc = "call"

FlashSpec == FlashInit /\ [][CalculateFLASH]_vars

\* i.split(b' ')
SplitBlank(s, acc) == SplitAt(s, " ", acc)

\* payload = i.split(b' '); payload.remove(payload[0])
PayloadFields(part) == Tail(SplitBlank(part, ""))

\* the first of the parts that holds t, <<>> if none does
RECURSIVE FirstWith(_, _)
FirstWith(parts, t) ==
    IF parts = <<>> THEN <<>>
    ELSE IF In(t, Head(parts)) THEN <<Head(parts)>>
    ELSE FirstWith(Tail(parts), t)

\* payload[0]==self.HomeID[0] and ... and payload[3]==self.HomeID[3] and
\* payload[5]==b"0x03" on the text of the fields, from the left: "ack",
\* "no", or the IndexError of the first index out of range
RECURSIVE IsAckOf_AnyByteFive(_, _, _)
IsAckOf_AnyByteFive(payload, home, k) ==
    IF k = 4
      THEN IF Len(payload) < 6 THEN "IndexError" ELSE "ack"
      ELSE IF Len(payload) < k + 1 THEN "IndexError"
           ELSE IF payload[k + 1] # home[k + 1] THEN "no"
           ELSE IsAckOf_AnyByteFive(payload, home, k + 1)

RECURSIVE IsAckOf(_, _, _)
IsAckOf(payload, home, k) ==
    IF k = 4
      THEN IF Len(payload) < 6 THEN "IndexError"
           ELSE IF payload[6] = "0x03" THEN "ack" ELSE "no"
      ELSE IF Len(payload) < k + 1 THEN "IndexError"
           ELSE IF payload[k + 1] # home[k + 1] THEN "no"
           ELSE IsAckOf(payload, home, k + 1)

\* one line of the counting loop, on its text: the first part that holds
\* b"payload" is looked at, then `break`
CountLine(l, home) ==
    IF In("rxPacket", l) /\ In("payload", l)
      THEN IsAckOf(PayloadFields(FirstWith(Split(l, ""), "payload")[1]), home, 0)
      ELSE "no"

\* the payload SendNOPs takes from the NIF: of the first part that holds
\* b'payload:'
NifPayloadFields(nif) ==
    IF FirstWith(Split(nif, ""), "payload:") = <<>> THEN <<>>
    ELSE PayloadFields(FirstWith(Split(nif, ""), "payload:")[1])

\* self.HomeID = [payload[0], payload[1], payload[2], payload[3]]
HomeIdOf(nif) == SubSeq(NifPayloadFields(nif), 1, 4)

\* the NIFs of two devices, as RailTest prints them
NifTexts ==
    {"{{(rxPacket)}{len:20}{payload: 0xCB 0x95 0xA3 0x4F 0x00 0x01 0x41 0x14 0xFF 0x01 0x01 0xD3 0x9C 0x04 0x10}}",
     "{{(rxPacket)}{len:20}{payload: 0xCB 0x95 0xA3 0x50 0x00 0x01 0x41 0x14 0xFF 0x01 0x01 0xD3 0x9C 0x04 0x10}}"}

\* lines ReadCOM may return in the counting loop: nothing; an ACK of the
\* first device; the same without rxPacket; an ACK of the second device; a
\* frame of the first device that is no ACK; two packets in one line, no
\* ACK and then an ACK, and two ACKs; a line cut short
CountLines ==
    {"",
     "{{(rxPacket)}{payload: 0xCB 0x95 0xA3 0x4F 0x02 0x03}}",
     "{{(txPacket)}{payload: 0xCB 0x95 0xA3 0x4F 0x02 0x03}}",
     "{{(rxPacket)}{payload: 0xCB 0x95 0xA3 0x50 0x02 0x03}}",
     "{{(rxPacket)}{payload: 0xCB 0x95 0xA3 0x4F 0x02 0x41}}",
     "{{(rxPacket)}{payload: 0xCB 0x95 0xA3 0x4F 0x02 0x41 0x06}}{{(rxPacket)}{payload: 0xCB 0x95 0xA3 0x4F 0x02 0x03 0x06}}",
     "{{(rxPacket)}{payload: 0xCB 0x95 0xA3 0x4F 0x02 0x03 0x06}}{{(rxPacket)}{payload: 0xCB 0x95 0xA3 0x4F 0x02 0x03 0x06}}",
     "{{(rxPacket)}{payload: 0xCB 0x95"}

\* SendNOPs up to its loop, on the text of the NIF
CountStart ==
    /\ pc = "call"
    /\ IF FirstWith(Split(arg, ""), "payload:") = <<>>
         THEN pc' = "raised" /\ outcome' = "UnboundLocalError" /\ written' = written
         ELSE IF Len(NifPayloadFields(arg)) < 5
         THEN pc' = "raised" /\ outcome' = "IndexError" /\ written' = written
         ELSE pc' = "count_loop" /\ outcome' = outcome /\ written' = written + 2
    /\ acks' = 0 /\ timeout' = 0
    /\ UNCHANGED <<arg, retval, line, argVars, uartVars, ret, c, sendVars, getVars,
                   response, ackVars, rxNone, toolVars>>

\* while acks<10 and timeout<30: timeout+=1; line=self.ReadCOM(); ...
CountRead ==
    /\ pc = "count_loop"
    /\ acks < 10 /\ timeout < 30
    /\ timeout' = timeout + 1
    /\ LET HomeID_ == HomeIdOf(arg)
       IN \E l \in CountLines :
            LET counted == CountLine(l, HomeID_)
            IN /\ line' = l
               /\ acks' = IF counted = "ack" THEN acks + 1 ELSE acks
               /\ IF counted \in {"ack", "no"}
                    THEN pc' = pc /\ outcome' = outcome
                    ELSE pc' = "raised" /\ outcome' = counted
    /\ UNCHANGED <<arg, retval, written, argVars, uartVars, ret, c, sendVars, getVars,
                   response, ackVars, rxNone, toolVars>>

\* return(acks)
CountReturn ==
    /\ pc = "count_loop"
    /\ ~(acks < 10 /\ timeout < 30)
    /\ retval' = acks
    /\ pc' = "done"
    /\ UNCHANGED <<arg, railVars, engineVars>>

CountNOPs == CountStart \/ CountRead \/ CountReturn

\* SendNOPs on the text of the NIF and of the lines read
CountInit ==
    /\ Idle /\ Locals
    /\ arg \in NifTexts
    /\ retval = <<>>
    /\ pc = "call"

CountSpec == CountInit /\ [][CountNOPs]_vars

Terminated == pc \in {"done", "raised"}

-----------------------------------------------------------------------------
(* Properties *)

\* the call is inside GetZWave (or in a GetRxChar that GetZWave called)
GzSites == {"gz_first", "gz_sync", "gz_len", "gz_body"}
InGetZWave ==
    \/ pc \in {"gz_start", "gz_chk"} \cup GzSites
    \/ pc = "GetRxChar" /\ ret \in GzSites

\* C1: one call of Send2ZWave writes the frame at most max_retries + 1 times,
\* whatever the payload, the flag and the peer.
C1_AtMostMaxRetriesPlusOne == Len(frames) <= max_retries + 1

\* a call that has used every round of the for loop
C1_Witness == Terminated /\ Len(frames) = StopTry - FirstTry /\ delivered > 0

\* C2: a call none of whose attempts read ACK ends with a result that no
\* acknowledged call produces (an acknowledged call returns None or bytes).
C2_NoAckIsReported == (Terminated /\ ~acked) => outcome \notin {"None", "bytes"}

\* C3: without an ACK on any attempt GetZWave is never entered, so it writes
\* no ACK and no payload is returned.
C3_NoReplyWaitWithoutAck ==
    ~acked => (~InGetZWave /\ ackDecode = 0 /\ outcome # "bytes")

C5_NakThenAck ==
    hs = <<NAK, ACK>> =>
        /\ Len(frames) = 2
        /\ acked
        /\ pc \notin {"start", "flush", "send", "hs", "probe", "drain"}
        /\ ~(pc = "GetRxChar" /\ ret = "hs")
        /\ (Terminated /\ ~returnStringFlag) => outcome = "None"

C5_Witness ==
    pc = "done" /\ hs = <<NAK, ACK>> /\ ~returnStringFlag /\ outcome = "None"

\* C6: after an attempt has read ACK the frame is never written again; if then
\* the reply wait times out on its first byte the call returns None, having
\* sent one frame per handshake read (one frame when the first was ACKed).
C6_NoResendAfterAck ==
    /\ [][acked => frames' = frames]_vars
    /\ []((pc = "done" /\ acked /\ returnStringFlag /\ "gz_first" \in rxNone) =>
            /\ outcome = "None"
            /\ Len(frames) = Len(hs)
            /\ hs[Len(hs)] = ACK
            /\ (hs = <<ACK>> => Len(frames) = 1))

C6_Witness ==
    /\ pc = "done" /\ returnStringFlag /\ hs = <<ACK>>
    /\ "gz_first" \in rxNone /\ outcome = "None" /\ Len(frames) = 1

\* C7: GetZWave, fed the encoder's packet for payload p without any read
\* timing out, returns exactly p.
C7_RoundTrip ==
    (Terminated /\ rxNone = {}) => (outcome = "bytes" /\ response = SerialAPIcmd)

C7_Witness ==
    /\ pc = "done" /\ rxNone = {} /\ outcome = "bytes"
    /\ Len(SerialAPIcmd) = MaxCmdLen /\ response = SerialAPIcmd

\* C8: the checksum of a byte sequence followed by its own checksum is 0, and
\* the value GetZWave computes for an encoded frame read back whole is 0.
C8_ChecksumOfFrameIsZero ==
    /\ \A s \in Cmds \cup {Frame(SerialAPIcmd)} :
           checksum(Append(s, checksum(s))) = 0
    /\ (pc = "done" /\ outcome = "bytes" /\ rxNone = {}) => chk = 0

C8_Witness ==
    pc = "done" /\ outcome = "bytes" /\ rxNone = {} /\ chk = 0 /\ SerialAPIcmd # <<>>

\* the XOR of all the bytes of a sequence
RECURSIVE XorAll(_)
XorAll(s) == IF s = <<>> THEN 0 ELSE Xor(Head(s), XorAll(Tail(s)))

\* C9: every frame written is 0x01, len(p)+2, 0x00, the bytes of p, and one
\* checksum byte in 0..255 that is 0xFF XORed with the length byte, the kind
\* byte and every byte of p.
C9_WireFormat ==
    \A k \in 1..Len(frames) :
        LET f == frames[k]
            p == SerialAPIcmd
        IN /\ Len(f) = Len(p) + 4
           /\ f[1] = 1
           /\ f[2] = Len(p) + 2
           /\ f[3] = 0
           /\ SubSeq(f, 4, Len(f) - 1) = p
           /\ f[Len(f)] \in 0..255
           /\ f[Len(f)] = XorAll(<<255, Len(p) + 2, 0>> \o p)

C9_Witness == Len(frames) = 2 /\ Len(SerialAPIcmd) = 6

\* the stream GetZWave is about to read holds no SOF
NoSofToCome == pc = "gz_start" /\ \A k \in 1..Len(feed) : feed[k] # SOF

\* C10: on a stream without SOF (silent, or some other bytes and then
\* silence) GetZWave comes to an end.
C10_NoSofTerminates == NoSofToCome ~> Terminated

\* C11: when the length byte or a byte of the frame body does not arrive in
\* time, GetZWave returns its error value to the caller, having written no
\* ACK and returning no payload.
C11_ByteTimeoutReturnsError ==
    (Terminated /\ rxNone \cap {"gz_len", "gz_body"} # {}) =>
        (pc = "done" /\ outcome = "None" /\ ackDecode = 0)

\* what lies between the first and the last element of a sequence
Middle(p) == [k \in 1..(IF Len(p) >= 2 THEN Len(p) - 2 ELSE 0) |-> p[k + 1]]

\* C12: a frame read to its last byte is acknowledged with exactly one ACK
\* and the bytes between its kind byte and its checksum byte are returned,
\* whatever the checksum; only a GetRxChar that returned None ends GetZWave
\* in any other way.
C12_WholeFrameAckedAndReturned ==
    /\ (Terminated /\ c # None) => outcome = "bytes"
    /\ outcome = "bytes" =>
          /\ pc = "done"
          /\ Len(rpkt) = length
          /\ ackDecode = 1
          /\ response = Middle(rpkt)

C12_Witness == outcome = "bytes" /\ chk # 0 /\ response = <<SOF>>

\* the place of the first SOF of a stream, and the bytes its length byte counts
FirstSof(s) == CHOOSE k \in 1..Len(s) : s[k] = SOF /\ \A j \in 1..(k - 1) : s[j] # SOF
FrameBody(s) == SubSeq(s, FirstSof(s) + 2, FirstSof(s) + 1 + s[FirstSof(s) + 1])

\* C13: when every byte arrives in time, GetZWave returns the payload of
\* the frame at the first SOF of the stream, whatever bytes come before it.
C13_JunkThenFrame ==
    (Terminated /\ rxNone = {}) =>
        (outcome = "bytes" /\ response = Middle(FrameBody(stream)))

C13_Witness ==
    /\ Terminated /\ rxNone = {} /\ copy = "NetX"
    /\ FirstSof(stream) > 1 /\ response # <<>>

\* C14: bytes returned by Send2ZWave(cmd, True) are the payload of the first
\* whole frame read after the handshake ACK of the attempt that was
\* acknowledged.
C14_ReplyFollowsAck ==
    outcome = "bytes" =>
        /\ acked
        /\ hs[Len(hs)] = ACK
        /\ response = Middle(FrameBody(got))

\* C15: once a handshake value of ACK has been read in a call that asks for
\* no reply, the call returns None without reading another byte and without
\* writing another frame or ACK.
C15_NoTrafficAfterAck ==
    /\ []((acked /\ ~returnStringFlag) =>
            /\ pc \in {"after", "done"}
            /\ c = ACK
            /\ pc = "done" => outcome = "None")
    /\ [][(acked /\ ~returnStringFlag) =>
            /\ frames' = frames
            /\ Len(rx') >= Len(rx)
            /\ UNCHANGED ackVars]_vars

C15_Witness ==
    /\ acked /\ ~returnStringFlag /\ pc = "done"
    /\ Len(frames) = 2 /\ rx # <<>>

\* C16: before the first frame is written, one ACK is written if and only
\* if a byte was pending when the call looked first, nothing else is
\* written, bytes are read only after that and until none is pending, and
\* the frame is written with none pending.
C16_FlushBeforeFirstFrame ==
    /\ [](frames = <<>> => ackTry = 0 /\ ackDecode = 0)
    /\ []((pc = "send" /\ frames = <<>>) => rx = <<>>)
    /\ [][pc = "start" => ackFlush' = (IF rx # <<>> THEN 1 ELSE 0)]_vars
    /\ [][pc # "start" => ackFlush' = ackFlush]_vars
    /\ [][(frames = <<>> /\ Len(rx') < Len(rx)) => pc = "flush"]_vars
    /\ [][(frames = <<>> /\ frames' # frames) => rx = <<>>]_vars

C16_Witness ==
    /\ copy = "RSSI" /\ Len(frames) = 1 /\ ackFlush = 1
    /\ delivered = 2 /\ rx = <<>> /\ hs = <<>>

\* C17: a handshake value that is a byte other than ACK is answered with
\* exactly one ACK, then the pending bytes are read until none is left, then
\* the frame is written again if an attempt is left and the loop ends if
\* not; the rejection takes one attempt.
C17_RejectionAckDrainRetry ==
    /\ [][(pc = "hs" /\ c \notin {None, ACK}) =>
            (pc' = "drain" /\ ackTry' = ackTry + 1)]_vars
    /\ [](pc = "drain" => ackTry = 1)
    /\ [][(pc = "drain" /\ pc' # "drain") =>
            /\ rx = <<>> /\ rx' = <<>>
            /\ UNCHANGED <<frames, ackVars>>
            /\ IF Len(frames) < StopTry - FirstTry
                 THEN pc' = "send" /\ retries' = retries + 1
                 ELSE pc' = "after"]_vars
    /\ [](pc \in {"hs", "drain"} => Len(frames) = retries)

\* C18: after a handshake read that timed out, every step of the probe loop
\* writes one ACK; the loop is left after the first ACK written with a byte
\* pending, otherwise after the 32nd, so with 1 to 32 ACKs written; then
\* the frame is written again if an attempt is left, the timeout having
\* taken one.
C18_ProbesOneToThirtyTwo ==
    /\ [](pc = "probe" =>
            /\ hs[Len(hs)] = None
            /\ ackTry = i /\ i \in 0..31
            /\ Len(frames) = retries)
    /\ [][(pc = "probe" /\ rx' = rx) =>
            /\ ackTry' = ackTry + 1
            /\ pc' # "probe" <=> (rx # <<>> \/ ackTry' = 32)]_vars
    /\ [][(pc = "probe" /\ pc' # "probe") =>
            /\ ackTry' \in 1..32
            /\ UNCHANGED <<frames, ackFlush, ackDecode>>
            /\ IF Len(frames) < StopTry - FirstTry
                 THEN pc' = "send" /\ retries' = retries + 1
                 ELSE pc' = "after"]_vars

C18_Witness ==
    /\ pc = "send" /\ hs = <<None, None>>
    /\ ackTry = 2 /\ rx # <<>>

\* the identifiers a mask stands for: 8k + b + 1 for every bit b that is set
\* in byte k, the bytes counted from 0
MaskIds(m) ==
    {n \in 1..(8 * Len(m)) : (m[((n - 1) \div 8) + 1] \div (2 ^ ((n - 1) % 8))) % 2 = 1}

\* C19: UnpackNodeMask returns the identifiers of the set bits of its
\* argument, all of them and no other, in strictly ascending order; the
\* empty mask gives the empty list, [0x01] gives [1], [0x80] gives [8] and
\* [0x00,0x01] gives [9].
C19_MaskIdentifiers ==
    pc = "done" =>
        /\ {retval[n] : n \in 1..Len(retval)} = MaskIds(arg)
        /\ \A n \in 1..(Len(retval) - 1) : retval[n] < retval[n + 1]
        /\ arg = <<>> => retval = <<>>
        /\ arg = <<1>> => retval = <<1>>
        /\ arg = <<128>> => retval = <<8>>
        /\ arg = <<0, 1>> => retval = <<9>>

C19_Witness == pc = "done" /\ arg = <<165, 0, 128>> /\ retval = <<1, 3, 6, 8, 24>>

\* C20: for a byte other than 0x7D, 0x7E and 0x7F MapRSSI returns the byte
\* read as a signed 8-bit number: v - 256 from 128 on, v itself below; the
\* result lies in -128..127.
C20_SignedReading ==
    (pc = "done" /\ arg \notin {125, 126, 127}) =>
        /\ retval.kind = "int"
        /\ retval.val = (IF arg >= 128 THEN arg - 256 ELSE arg)
        /\ retval.val \in -128..127

\* C21: MapRSSI returns "NA" for 0x7F, "MAX" for 0x7E and "MIN" for 0x7D,
\* and a string for no other byte.
C21_Sentinels ==
    pc = "done" =>
        /\ retval.kind = "str" <=> arg \in {125, 126, 127}
        /\ arg = 127 => retval.val = "NA"
        /\ arg = 126 => retval.val = "MAX"
        /\ arg = 125 => retval.val = "MIN"

C21_Witness == pc = "done" /\ arg = 125 /\ retval.kind = "str" /\ retval.val = "MIN"

\* C22: GetNodeIDList returns, in ascending order, the NodeIDs 8k + i + 1 of
\* the bits set in the 29 mask bytes of the reply, and the empty list when
\* there is no reply or one of 33 bytes or fewer.
C22_NodeIdsOfReply ==
    pc # "call" =>
        /\ pc = "done"
        /\ IF outcome = "bytes" /\ Len(response) > 33
             THEN /\ {retval[n] : n \in 1..Len(retval)} = MaskIds(SubSeq(response, 5, 33))
                  /\ \A n \in 1..(Len(retval) - 1) : retval[n] < retval[n + 1]
             ELSE retval = <<>>

\* C23: SendNOPs comes to an end by returning a number of ACKs in 0..10,
\* after at most 30 calls of ReadCOM, whatever lines ReadCOM returns.
C23_NopsReturnCount ==
    /\ timeout <= 30 /\ acks <= 10
    /\ Terminated => (pc = "done" /\ retval \in 0..10)

\* C24: one call of SendRailCmd writes the command at most twice, whatever
\* ReadCOM returns.
C24_CommandWrittenTwiceAtMost == written <= 2

\* the first part of a line that holds 'payload:'
FirstPayload(q) ==
    q[CHOOSE k \in 1..Len(q) : q[k].kind = "payload" /\ \A j \in 1..(k - 1) : q[j].kind # "payload"]

\* C25: IsNIF never raises; it returns True exactly for a line that is not
\* None, holds 'len:' and 'payload:', and whose first payload has at least
\* 15 bytes with bytes 9 and 10 both 0x01, and False for every other.
C25_IsNifTotal ==
    pc # "call" =>
        /\ pc = "done"
        /\ retval.kind = "bool"
        /\ retval.val <=>
              /\ ~arg.none
              /\ \E k \in 1..Len(arg.parts) : arg.parts[k].kind = "len"
              /\ \E k \in 1..Len(arg.parts) : arg.parts[k].kind = "payload"
              /\ Len(FirstPayload(arg.parts).fields) >= 16
              /\ FirstPayload(arg.parts).fields[11] = "0x01"
              /\ FirstPayload(arg.parts).fields[12] = "0x01"

\* the lines of the port that hold 'getVersion'
Replies == {k \in 1..Len(arg) : In("getVersion", arg[k])}

\* the first of them
Reply == arg[CHOOSE k \in Replies : \A j \in Replies : k <= j]

\* C26: GetVersion returns the RAIL field of the getVersion reply when the
\* reply has one, and a string of length 0 when there is no line with
\* 'getVersion' or the reply has no RAIL field.
C26_VersionOrEmpty ==
    pc = "done" =>
        IF Replies # {} /\ In("{RAIL:", Reply)
          THEN retval.val = "RAIL:2.8.6"
          ELSE Len(retval.val) = 0

\* the offset a read command asks for
OffsetOf(cmd) == (cmd[2] * 256 + cmd[3]) * 256 + cmd[4]

\* C27: when every reply has at least 129 bytes, FetchNVM issues exactly
\* 128 reads, of the offsets 0, 128, ..., 16256 in this order, and leaves
\* an image of exactly the addresses 0..16383, each written once, address
\* offset + j holding byte j + 1 of the reply to the read of that offset.
C27_FirstSixteenK ==
    (\A k \in 1..Len(got) : Len(got[k]) >= 129) =>
        /\ \A k \in 1..Len(frames) :
              /\ k <= 128
              /\ Len(frames[k]) = 6 /\ frames[k][1] = 42 /\ frames[k][6] = 128
              /\ OffsetOf(frames[k]) = 128 * (k - 1)
        /\ Terminated =>
              /\ pc = "done"
              /\ Len(frames) = 128 /\ Len(got) = 128
              /\ DOMAIN NVM = 0..16383
              /\ \A k \in 1..128 : \A j \in 0..127 :
                    NVM[OffsetOf(frames[k]) + j] = <<got[k][j + 2]>>

C27_Witness ==
    /\ pc = "done" /\ Len(frames) = 128
    /\ 16383 \in DOMAIN NVM
    /\ NVM[16383] # NVM[0]

\* the categories whose string occurs in the file name f
Matching(f) == {k \in 1..Len(FlashCategories) : In(FlashCategories[k][2], f)}

\* the categories whose total a step changes
Changed == {cat \in DOMAIN size : size'[cat] # size[cat]}

\* C28: a line of four fields with a hex address and a size adds its size
\* to the first category, in the order of declaration, whose string occurs
\* in the file name, and to no other; a line that matches no category
\* changes no total.
C28_FirstCategoryOnly ==
    [][(pc = "flash_loop" /\ Len(line) = 4 /\ isHex(line[2]) /\ isHex(line[3])) =>
          IF Matching(line[4]) = {}
            THEN Changed = {}
            ELSE \E k \in Matching(line[4]) :
                   /\ \A j \in Matching(line[4]) : k <= j
                   /\ Changed = {FlashCategories[k][1]}
                   /\ size'[FlashCategories[k][1]] = size[FlashCategories[k][1]] + HexVal(line[3])]_vars

C28_Witness ==
    /\ pc = "done" /\ Len(arg) = 3
    /\ arg[1] = <<".text.a", "0x00001000", "0x10", "/lib/gcc/nvm3.o">>
    /\ arg[2] = <<".text.d", "0x00001034", "0x8", "/z-wave/ZAF/x.o">>
    /\ retval["GCC"] = 16 /\ retval["ZAF"] = 8
    /\ retval["NVM3CODE"] = 0 /\ retval["ZWAVE"] = 0 /\ retval["APPLICATION"] = 0

\* C29: within one call of Send2ZWave every retransmission writes the very
\* bytes of the first transmission, whatever handshake bytes came in between.
C29_FrameBuiltOnce ==
    \A k \in 1..Len(frames) : frames[k] = frames[1]

C29_Witness ==
    /\ Len(frames) = 3 /\ Len(hs) >= 2
    /\ hs[1] = None /\ hs[2] = NAK
    /\ SerialAPIcmd # <<>>

\* C30: a frame is written again only with the input buffer emptied, after a
\* rejection as after a handshake timeout whose probes drew a byte, so that
\* the handshake of a transmission is a byte delivered after it was written.
C30_RetransmitsOnEmptiedBuffer ==
    (pc = "send" /\ frames # <<>>) => rx = <<>>

\* the places GetRxChar returns to: c holds what it returned, and no byte
\* is delivered before the caller has looked at it
RxSites == GzSites \cup {"hs"}

\* C31: GetRxChar returns None only if no byte is pending when it returns;
\* a byte that arrives during the last poll interval is returned.
C31_NoneOnlyIfNothingPending ==
    (pc \in RxSites /\ c = None) => rx = <<>>

\* C32: called with the same command and flag on a device that answers in
\* the same way, the three copies write the same and return the same.
C32_CopiesAgree ==
    \A j, k \in 1..Len(retval) : retval[j] = retval[k]

\* a SOF has been read
SofRead == \E k \in 1..Len(got) : got[k] = SOF

\* C33: from the SOF on, GetZWave reads the length byte and as many further
\* bytes as it says, never one more; a call that returns the frame has read
\* exactly these, and every byte behind them is still to be read, in order.
C33_ReadsLengthPlusOne ==
    /\ stream = got \o rx \o feed
    /\ (SofRead /\ Len(got) > FirstSof(got)) =>
          Len(got) <= FirstSof(got) + 1 + got[FirstSof(got) + 1]
    /\ outcome = "bytes" =>
          /\ SofRead /\ Len(got) > FirstSof(got)
          /\ Len(got) = FirstSof(got) + 1 + got[FirstSof(got) + 1]

C33_Witness ==
    /\ outcome = "bytes" /\ pc = "done"
    /\ Len(rpkt) = 3 /\ FirstSof(stream) = 2
    /\ rx \o feed = <<SOF>>

\* C34: GetZWave writes its ACK only with a whole frame read; a call that
\* returns None because no byte came within the reply timeout has written
\* nothing and read no byte.
C34_TimeoutLeavesSourceAlone ==
    /\ ackDecode > 0 => (SofRead /\ Len(rpkt) = length /\ outcome = "bytes")
    /\ (pc = "done" /\ outcome = "None") =>
          /\ ackDecode = 0 /\ ackFlush = 0 /\ ackTry = 0 /\ frames = <<>>
          /\ got = <<>>
          /\ rx \o feed = stream

C34_Witness ==
    /\ pc = "done" /\ outcome = "None"
    /\ rx # <<>> /\ feed # <<>>

\* C35: one call of Send2ZWave writes at most 1 ACK in its flush, at most 32
\* in each of at most 3 attempts, and at most 1 for the reply: 98 at most.
C35_AckBudget ==
    /\ ackFlush <= 1
    /\ ackTry <= 32
    /\ Len(frames) <= 3
    /\ ackTry > 0 => frames # <<>>
    /\ ackDecode <= 1
    /\ ackFlush + 32 * Len(frames) + ackDecode <= 98

C35_Witness ==
    /\ ackFlush = 1 /\ Len(frames) = 3 /\ ackTry = 32
    /\ hs = <<None, None, None>> /\ pc = "after"

\* the parts of a line that hold a payload, in the order of the line
Payloads(l) == SelectSeq(Split(l, ""), LAMBDA part : In("payload", part))

\* a line that counts: it holds rxPacket, and the first of its payloads has
\* the HomeID of the NIF in bytes 0..3 and 0x03 in byte 5
Counts(l) ==
    /\ In("rxPacket", l)
    /\ Payloads(l) # <<>>
    /\ LET bytes == Tail(SplitBlank(Payloads(l)[1], ""))
           home == Tail(SplitBlank(Payloads(arg)[1], ""))
       IN /\ Len(bytes) >= 6
          /\ \A n \in 1..4 : bytes[n] = home[n]
          /\ bytes[6] = "0x03"

\* C36: the count SendNOPs returns is the number of lines read in its loop
\* that hold rxPacket and whose first payload has the HomeID of the NIF in
\* bytes 0..3 and 0x03 in byte 5: the count starts at 0, every such line
\* adds 1, also when it holds several ACKs, every other line adds 0, and
\* the count is what is returned.
C36_CountsFirstPayloads ==
    /\ [][pc = "call" => acks' = 0]_vars
    /\ [][(pc = "count_loop" /\ pc' = "count_loop") =>
            acks' = acks + (IF Counts(line') THEN 1 ELSE 0)]_vars
    /\ [][(pc = "count_loop" /\ pc' = "done") => (retval' = acks /\ acks' = acks)]_vars

C36_Witness ==
    /\ pc = "done" /\ retval = 10 /\ timeout = 30
    /\ line = "{{(rxPacket)}{payload: 0xCB 0x95 0xA3 0x4F 0x02 0x03 0x06}}{{(rxPacket)}{payload: 0xCB 0x95 0xA3 0x4F 0x02 0x03 0x06}}"
    /\ arg = "{{(rxPacket)}{len:20}{payload: 0xCB 0x95 0xA3 0x4F 0x00 0x01 0x41 0x14 0xFF 0x01 0x01 0xD3 0x9C 0x04 0x10}}"

====
